---- MODULE Spec2Model ----
(***************************************************************************)
(* Archive / Serialize / Deserialize and the equality and ordering bridge  *)
(* of the network address types of rkyv (rkyv/src/std_impl/net.rs).        *)
(*                                                                         *)
(* A destination slot is a sequence of cells, one per byte of the archived *)
(* type; a cell holds a byte 0..255 or Uninit (MaybeUninit: never          *)
(* written).  Offsets are 0-based as in the source, so the byte at offset  *)
(* o is cell o + 1.                                                        *)
(*                                                                         *)
(* Owned values:                                                           *)
(*   Ipv4Addr      <<o1, o2, o3, o4>>            the four octets           *)
(*   Ipv6Addr      <<s1, ..., s8>>               the eight segments        *)
(*   IpAddr        [arm, ip]                     arm "V4" or "V6"          *)
(*   SocketAddrV4  [ip, port]                                              *)
(*   SocketAddrV6  [ip, port, flowinfo, scope_id]                          *)
(*   SocketAddr    [arm, addr]                                             *)
(*                                                                         *)
(* A build fixes what the compiler fixes: the host byte order and the      *)
(* field order of the two archived structs, which are repr(C) only under   *)
(* the "strict" feature and compiler-chosen otherwise.                     *)
(***************************************************************************)
EXTENDS Integers, Sequences, FiniteSets, TLC

\* Bounds of the model.
MaxPos == 1
MaxLow == 1

\* A cell of a MaybeUninit slot that no write has reached.
Uninit == -1

Types == {"Ipv4Addr", "Ipv6Addr", "IpAddr", "SocketAddrV4", "SocketAddrV6", "SocketAddr"}

Endians == {"little", "big"}

Positions == {4 * i : i \in 0..MaxPos}

-----------------------------------------------------------------------------
(* Integers as bytes. *)

\* u16::swap_bytes
SwapBytes16(x) == (x % 256) * 256 + (x \div 256)

\* u16::from_be: the identity on a big-endian host, a byte swap on a
\* little-endian one.
U16FromBe(x, endian) == IF endian = "big" THEN x ELSE SwapBytes16(x)

Pow256(k) == IF k = 0 THEN 1 ELSE IF k = 1 THEN 256 ELSE IF k = 2 THEN 65536 ELSE 16777216

\* The n bytes of x in memory order on a host of the given byte order.
ToNeBytes(x, n, endian) ==
    [i \in 1..n |-> IF endian = "little"
                    THEN (x \div Pow256(i - 1)) % 256
                    ELSE (x \div Pow256(n - i)) % 256]

RECURSIVE SumBytes(_, _, _)
SumBytes(bytes, endian, i) ==
    IF i > Len(bytes) THEN 0
    ELSE bytes[i] * (IF endian = "little" THEN Pow256(i - 1) ELSE Pow256(Len(bytes) - i))
         + SumBytes(bytes, endian, i + 1)

\* The integer a host of the given byte order reads from bytes in memory.
FromNeBytes(bytes, endian) == SumBytes(bytes, endian, 1)

\* Ipv6Addr::octets(): each segment as two bytes, high byte first.
Ipv6Octets(segs) ==
    [i \in 1..16 |-> IF i % 2 = 1 THEN segs[(i + 1) \div 2] \div 256
                                  ELSE segs[i \div 2] % 256]

-----------------------------------------------------------------------------
(* Layout: sizes, alignments and field offsets of the archived types. *)

AlignUp(n, a) == ((n + a - 1) \div a) * a

Max(a, b) == IF a >= b THEN a ELSE b

\* The declared field order of the archived structs (the repr(C) order).
DeclaredV4 == <<"ip", "port">>
DeclaredV6 == <<"ip", "port", "flowinfo", "scope_id">>

Perms(S) == {p \in [1..Cardinality(S) -> S] : \A a \in S : \E i \in DOMAIN p : p[i] = a}

\* The field orders a build may use: the declared one under "strict"
\* (repr(C)), any order otherwise.
Builds ==
    {[endian |-> e, strict |-> s, orderV4 |-> o4, orderV6 |-> o6] :
        e \in Endians, s \in {TRUE}, o4 \in {DeclaredV4}, o6 \in {DeclaredV6}}
    \cup
    {[endian |-> e, strict |-> s, orderV4 |-> o4, orderV6 |-> o6] :
        e \in Endians, s \in {FALSE},
        o4 \in Perms({"ip", "port"}),
        o6 \in Perms({"ip", "port", "flowinfo", "scope_id"})}

\* ArchivedIpv4Addr: repr(transparent) over [u8; 4].
SizeOfIpv4 == 4
AlignOfIpv4 == 1
\* ArchivedIpv6Addr: repr(transparent) over [u16; 8].
SizeOfIpv6 == 16
AlignOfIpv6 == 2
\* The discriminant: repr(u8).
SizeOfTag == 1

FieldSizeV4(f) == IF f = "ip" THEN SizeOfIpv4 ELSE 2
FieldAlignV4(f) == IF f = "ip" THEN AlignOfIpv4 ELSE 2
FieldSizeV6(f) == CASE f = "ip" -> SizeOfIpv6 [] f = "port" -> 2 [] OTHER -> 4
FieldAlignV6(f) == CASE f = "ip" -> AlignOfIpv6 [] f = "port" -> 2 [] OTHER -> 4

\* Fields placed one after the other in the given order, each at the next
\* offset that is a multiple of its alignment.
RECURSIVE EndOfV4(_, _)
EndOfV4(ord, k) ==
    IF k = 0 THEN 0
    ELSE AlignUp(EndOfV4(ord, k - 1), FieldAlignV4(ord[k])) + FieldSizeV4(ord[k])

RECURSIVE EndOfV6(_, _)
EndOfV6(ord, k) ==
    IF k = 0 THEN 0
    ELSE AlignUp(EndOfV6(ord, k - 1), FieldAlignV6(ord[k])) + FieldSizeV6(ord[k])

IndexOf(ord, f) == CHOOSE k \in DOMAIN ord : ord[k] = f

\* offset_of!(ArchivedSocketAddrV4, f)
OffsetOfV4(b, f) ==
    LET k == IndexOf(b.orderV4, f)
    IN  AlignUp(EndOfV4(b.orderV4, k - 1), FieldAlignV4(f))

\* offset_of!(ArchivedSocketAddrV6, f)
OffsetOfV6(b, f) ==
    LET k == IndexOf(b.orderV6, f)
    IN  AlignUp(EndOfV6(b.orderV6, k - 1), FieldAlignV6(f))

\* A struct is aligned as its most aligned field.
AlignOfSocketAddrV4 == Max(FieldAlignV4("ip"), FieldAlignV4("port"))
AlignOfSocketAddrV6 ==
    Max(Max(FieldAlignV6("ip"), FieldAlignV6("port")),
        Max(FieldAlignV6("flowinfo"), FieldAlignV6("scope_id")))
SizeOfSocketAddrV4(b) == AlignUp(EndOfV4(b.orderV4, 2), AlignOfSocketAddrV4)
SizeOfSocketAddrV6(b) == AlignUp(EndOfV6(b.orderV6, 4), AlignOfSocketAddrV6)

\* The V6 arm using the V4 record's offset.
OffsetOfIpAddrVariantV6_as_V4 == AlignUp(SizeOfTag, AlignOfIpv4)

\* offset_of!(Variant, 1) of a repr(C) tuple struct (tag, payload): the
\* payload starts at the first multiple of its alignment after the tag.
OffsetOfIpAddrVariantV4 == AlignUp(SizeOfTag, AlignOfIpv4)
OffsetOfIpAddrVariantV6 == AlignUp(SizeOfTag, AlignOfIpv6)
OffsetOfSocketAddrVariantV4 == AlignUp(SizeOfTag, AlignOfSocketAddrV4)
OffsetOfSocketAddrVariantV6 == AlignUp(SizeOfTag, AlignOfSocketAddrV6)

\* A repr(u8) enum with fields is a union of its repr(C) (tag, payload)
\* structs: as large as the largest, aligned as the most aligned.
SizeOfIpAddr ==
    AlignUp(Max(AlignUp(OffsetOfIpAddrVariantV4 + SizeOfIpv4, AlignOfIpv4),
                AlignUp(OffsetOfIpAddrVariantV6 + SizeOfIpv6, AlignOfIpv6)),
            Max(AlignOfIpv4, AlignOfIpv6))

SizeOfSocketAddr(b) ==
    AlignUp(Max(AlignUp(OffsetOfSocketAddrVariantV4 + SizeOfSocketAddrV4(b), AlignOfSocketAddrV4),
                AlignUp(OffsetOfSocketAddrVariantV6 + SizeOfSocketAddrV6(b), AlignOfSocketAddrV6)),
            Max(AlignOfSocketAddrV4, AlignOfSocketAddrV6))

\* size_of::<Archived<T>>()
SizeOf(t, b) ==
    CASE t = "Ipv4Addr" -> SizeOfIpv4
      [] t = "Ipv6Addr" -> SizeOfIpv6
      [] t = "IpAddr" -> SizeOfIpAddr
      [] t = "SocketAddrV4" -> SizeOfSocketAddrV4(b)
      [] t = "SocketAddrV6" -> SizeOfSocketAddrV6(b)
      [] t = "SocketAddr" -> SizeOfSocketAddr(b)

\* MaybeUninit::<Archived<T>>::uninit()
UninitSlot(t, b) == [i \in 1..SizeOf(t, b) |-> Uninit]

-----------------------------------------------------------------------------
(* Archive::resolve.  A resolve is the sequence of the writes it performs,  *)
(* in program order; each write records what was written, the position     *)
(* argument the writing call was given, the offset of its out pointer in    *)
(* the slot of the outermost call, and the bytes.                           *)

Write(what, pos, off, bytes) == [what |-> what, pos |-> pos, off |-> off, bytes |-> bytes]

\* Ipv4Addr's resolve writing at out advanced by the position it was given.
Ipv4Resolve_past_out(self, pos, off) == <<Write("Ipv4Addr", pos, off + pos, self)>>

\* impl Archive for Ipv4Addr: out.cast::<[u8; 4]>().write(self.octets())
Ipv4Resolve(self, pos, off) == <<Write("Ipv4Addr", pos, off, self)>>

\* Ipv6Addr's resolve writing self.segments() as the host holds them.
Ipv6Resolve_native(self, pos, off) ==
    <<Write("Ipv6Addr", pos, off,
            [i \in 1..16 |-> IF i % 2 = 1 THEN self[(i + 1) \div 2] % 256
                                          ELSE self[i \div 2] \div 256])>>

\* impl Archive for Ipv6Addr: out.cast::<[u8; 16]>().write(self.octets())
Ipv6Resolve(self, pos, off) == <<Write("Ipv6Addr", pos, off, Ipv6Octets(self))>>

\* impl Archive for u16 / u32: the value is stored as the host holds it.
U16Resolve(self, pos, off, endian) == <<Write("u16", pos, off, ToNeBytes(self, 2, endian))>>
U32Resolve(self, pos, off, endian) == <<Write("u32", pos, off, ToNeBytes(self, 4, endian))>>

\* SocketAddrV4's resolve projecting out by the absolute position of the
\* field instead of its offset in the struct.
SocketAddrV4Resolve_by_position(self, pos, off, b) ==
    Ipv4Resolve(self.ip, pos + OffsetOfV4(b, "ip"), off + pos + OffsetOfV4(b, "ip"))
    \o U16Resolve(self.port, pos + OffsetOfV4(b, "port"),
                  off + pos + OffsetOfV4(b, "port"), b.endian)

\* impl Archive for SocketAddrV4
SocketAddrV4Resolve(self, pos, off, b) ==
    Ipv4Resolve(self.ip, pos + OffsetOfV4(b, "ip"), off + OffsetOfV4(b, "ip"))
    \o U16Resolve(self.port, pos + OffsetOfV4(b, "port"), off + OffsetOfV4(b, "port"), b.endian)

\* impl Archive for SocketAddrV6
SocketAddrV6Resolve(self, pos, off, b) ==
    Ipv6Resolve(self.ip, pos + OffsetOfV6(b, "ip"), off + OffsetOfV6(b, "ip"))
    \o U16Resolve(self.port, pos + OffsetOfV6(b, "port"), off + OffsetOfV6(b, "port"), b.endian)
    \o U32Resolve(self.flowinfo, pos + OffsetOfV6(b, "flowinfo"),
                  off + OffsetOfV6(b, "flowinfo"), b.endian)
    \o U32Resolve(self.scope_id, pos + OffsetOfV6(b, "scope_id"),
                  off + OffsetOfV6(b, "scope_id"), b.endian)

\* The tag enum declared in the other order: { V6, V4 }.
ArchivedIpAddrTag_swapped(arm) == IF arm = "V4" THEN 1 ELSE 0

\* enum ArchivedIpAddrTag { V4, V6 }, repr(u8): the value written as tag.
ArchivedIpAddrTag(arm) == IF arm = "V4" THEN 0 ELSE 1

\* enum ArchivedSocketAddrTag { V4, V6 }, repr(u8)
ArchivedSocketAddrTag(arm) == IF arm = "V4" THEN 0 ELSE 1

\* IpAddr's resolve handing the V6 payload the position of the V4 payload.
IpAddrResolve_V4_position(self, pos, off) ==
    IF self.arm = "V4"
    THEN <<Write("tag", pos, off, <<ArchivedIpAddrTag("V4")>>)>>
         \o Ipv4Resolve(self.ip, pos + OffsetOfIpAddrVariantV4, off + OffsetOfIpAddrVariantV4)
    ELSE <<Write("tag", pos, off, <<ArchivedIpAddrTag("V6")>>)>>
         \o Ipv6Resolve(self.ip, pos + OffsetOfIpAddrVariantV4, off + OffsetOfIpAddrVariantV6)

\* impl Archive for IpAddr: the tag into field 0 of the variant's record,
\* then the payload resolved into field 1.
IpAddrResolve(self, pos, off) ==
    IF self.arm = "V4"
    THEN <<Write("tag", pos, off, <<ArchivedIpAddrTag("V4")>>)>>
         \o Ipv4Resolve(self.ip, pos + OffsetOfIpAddrVariantV4, off + OffsetOfIpAddrVariantV4)
    ELSE <<Write("tag", pos, off, <<ArchivedIpAddrTag("V6")>>)>>
         \o Ipv6Resolve(self.ip, pos + OffsetOfIpAddrVariantV6, off + OffsetOfIpAddrVariantV6)

\* impl Archive for SocketAddr
SocketAddrResolve(self, pos, off, b) ==
    IF self.arm = "V4"
    THEN <<Write("tag", pos, off, <<ArchivedSocketAddrTag("V4")>>)>>
         \o SocketAddrV4Resolve(self.addr, pos + OffsetOfSocketAddrVariantV4,
                                off + OffsetOfSocketAddrVariantV4, b)
    ELSE <<Write("tag", pos, off, <<ArchivedSocketAddrTag("V6")>>)>>
         \o SocketAddrV6Resolve(self.addr, pos + OffsetOfSocketAddrVariantV6,
                                off + OffsetOfSocketAddrVariantV6, b)

\* value.resolve(pos, (), out) for a value of type t, out at offset 0.
ResolveWrites(t, self, pos, b) ==
    CASE t = "Ipv4Addr" -> Ipv4Resolve(self, pos, 0)
      [] t = "Ipv6Addr" -> Ipv6Resolve(self, pos, 0)
      [] t = "IpAddr" -> IpAddrResolve(self, pos, 0)
      [] t = "SocketAddrV4" -> SocketAddrV4Resolve(self, pos, 0, b)
      [] t = "SocketAddrV6" -> SocketAddrV6Resolve(self, pos, 0, b)
      [] t = "SocketAddr" -> SocketAddrResolve(self, pos, 0, b)

\* The slot after one write: ptr.write(bytes) at offset wr.off.
ApplyWrite(slot, wr) ==
    [i \in DOMAIN slot |->
        IF wr.off < i /\ i <= wr.off + Len(wr.bytes) THEN wr.bytes[i - wr.off] ELSE slot[i]]

RECURSIVE ApplyWrites(_, _)
ApplyWrites(slot, ws) ==
    IF ws = <<>> THEN slot ELSE ApplyWrites(ApplyWrite(slot, Head(ws)), Tail(ws))

\* The cells some write of ws reaches (0-based offsets).
Written(ws, n) == {o \in 0..(n - 1) : \E k \in DOMAIN ws : ws[k].off <= o /\ o < ws[k].off + Len(ws[k].bytes)}

Cells(slot, off, n) == [i \in 1..n |-> slot[off + i]]

-----------------------------------------------------------------------------
(* Reading an archived value in place. *)

\* ArchivedIpv4Addr::as_ipv4
as_ipv4(slot, off) == Cells(slot, off, 4)

\* ArchivedIpv4Addr::octets
Ipv4_octets(slot, off) == Cells(slot, off, 4)

\* self.segments[i]: the u16 the host reads from the two bytes of segment i.
StoredSegment(slot, off, i, endian) == FromNeBytes(Cells(slot, off + 2 * (i - 1), 2), endian)

\* as_ipv6 without u16::from_be: the stored segments taken as they are.
as_ipv6_no_from_be(slot, off, endian) ==
    [i \in 1..8 |-> StoredSegment(slot, off, i, endian)]

\* ArchivedIpv6Addr::as_ipv6
as_ipv6(slot, off, endian) ==
    [i \in 1..8 |-> U16FromBe(StoredSegment(slot, off, i, endian), endian)]

\* ArchivedIpv6Addr::segments
segments(slot, off, endian) == [i \in 1..8 |-> StoredSegment(slot, off, i, endian)]

\* ArchivedIpv6Addr::octets
Ipv6_octets(slot, off, endian) == Ipv6Octets(as_ipv6(slot, off, endian))

\* self.port, self.flowinfo, self.scope_id: native reads of the field.
ReadU16(slot, off, endian) == FromNeBytes(Cells(slot, off, 2), endian)
ReadU32(slot, off, endian) == FromNeBytes(Cells(slot, off, 4), endian)

\* ArchivedSocketAddrV4::as_socket_addr_v4
as_socket_addr_v4(slot, off, b) ==
    [ip |-> as_ipv4(slot, off + OffsetOfV4(b, "ip")),
     port |-> ReadU16(slot, off + OffsetOfV4(b, "port"), b.endian)]

\* ArchivedSocketAddrV6::as_socket_addr_v6
as_socket_addr_v6(slot, off, b) ==
    [ip |-> as_ipv6(slot, off + OffsetOfV6(b, "ip"), b.endian),
     port |-> ReadU16(slot, off + OffsetOfV6(b, "port"), b.endian),
     flowinfo |-> ReadU32(slot, off + OffsetOfV6(b, "flowinfo"), b.endian),
     scope_id |-> ReadU32(slot, off + OffsetOfV6(b, "scope_id"), b.endian)]

\* enum ArchivedIpAddr { V4(..), V6(..) }, repr(u8): the arm a match
\* selects from the discriminant byte at offset 0.
ArchivedIpAddrArm(slot, off) ==
    CASE slot[off + 1] = 0 -> "V4" [] slot[off + 1] = 1 -> "V6" [] OTHER -> "invalid"

\* enum ArchivedSocketAddr { V4(..), V6(..) }, repr(u8)
ArchivedSocketAddrArm(slot, off) ==
    CASE slot[off + 1] = 0 -> "V4" [] slot[off + 1] = 1 -> "V6" [] OTHER -> "invalid"

\* ArchivedIpAddr::as_ipaddr
as_ipaddr(slot, off, endian) ==
    CASE ArchivedIpAddrArm(slot, off) = "V4" ->
            [arm |-> "V4", ip |-> as_ipv4(slot, off + OffsetOfIpAddrVariantV4)]
      [] ArchivedIpAddrArm(slot, off) = "V6" ->
            [arm |-> "V6", ip |-> as_ipv6(slot, off + OffsetOfIpAddrVariantV6, endian)]
      [] OTHER -> [arm |-> "invalid", ip |-> <<>>]

\* ArchivedSocketAddr::as_socket_addr
as_socket_addr(slot, off, b) ==
    CASE ArchivedSocketAddrArm(slot, off) = "V4" ->
            [arm |-> "V4", addr |-> as_socket_addr_v4(slot, off + OffsetOfSocketAddrVariantV4, b)]
      [] ArchivedSocketAddrArm(slot, off) = "V6" ->
            [arm |-> "V6", addr |-> as_socket_addr_v6(slot, off + OffsetOfSocketAddrVariantV6, b)]
      [] OTHER -> [arm |-> "invalid", addr |-> <<>>]

-----------------------------------------------------------------------------
(* Deserialize. *)

\* impl Deserialize<Ipv4Addr, D> for ArchivedIpv4Addr
Ipv4Deserialize(slot, off) == as_ipv4(slot, off)

\* impl Deserialize<Ipv6Addr, D> for ArchivedIpv6Addr
Ipv6Deserialize(slot, off, endian) == as_ipv6(slot, off, endian)

\* impl Deserialize<IpAddr, D> for Archived<IpAddr>
IpAddrDeserialize(slot, off, endian) ==
    CASE ArchivedIpAddrArm(slot, off) = "V4" ->
            [arm |-> "V4", ip |-> Ipv4Deserialize(slot, off + OffsetOfIpAddrVariantV4)]
      [] ArchivedIpAddrArm(slot, off) = "V6" ->
            [arm |-> "V6", ip |-> Ipv6Deserialize(slot, off + OffsetOfIpAddrVariantV6, endian)]
      [] OTHER -> [arm |-> "invalid", ip |-> <<>>]

\* impl Deserialize<SocketAddrV4, D> for ArchivedSocketAddrV4
SocketAddrV4Deserialize(slot, off, b) ==
    [ip |-> Ipv4Deserialize(slot, off + OffsetOfV4(b, "ip")),
     port |-> ReadU16(slot, off + OffsetOfV4(b, "port"), b.endian)]

\* impl Deserialize<SocketAddrV6, D> for ArchivedSocketAddrV6
SocketAddrV6Deserialize(slot, off, b) ==
    [ip |-> Ipv6Deserialize(slot, off + OffsetOfV6(b, "ip"), b.endian),
     port |-> ReadU16(slot, off + OffsetOfV6(b, "port"), b.endian),
     flowinfo |-> ReadU32(slot, off + OffsetOfV6(b, "flowinfo"), b.endian),
     scope_id |-> ReadU32(slot, off + OffsetOfV6(b, "scope_id"), b.endian)]

\* impl Deserialize<SocketAddr, D> for Archived<SocketAddr>
SocketAddrDeserialize(slot, off, b) ==
    CASE ArchivedSocketAddrArm(slot, off) = "V4" ->
            [arm |-> "V4",
             addr |-> SocketAddrV4Deserialize(slot, off + OffsetOfSocketAddrVariantV4, b)]
      [] ArchivedSocketAddrArm(slot, off) = "V6" ->
            [arm |-> "V6",
             addr |-> SocketAddrV6Deserialize(slot, off + OffsetOfSocketAddrVariantV6, b)]
      [] OTHER -> [arm |-> "invalid", addr |-> <<>>]

\* archived.deserialize(deserializer) for an archived value of type t.
DeserializeValue(t, slot, b) ==
    CASE t = "Ipv4Addr" -> Ipv4Deserialize(slot, 0)
      [] t = "Ipv6Addr" -> Ipv6Deserialize(slot, 0, b.endian)
      [] t = "IpAddr" -> IpAddrDeserialize(slot, 0, b.endian)
      [] t = "SocketAddrV4" -> SocketAddrV4Deserialize(slot, 0, b)
      [] t = "SocketAddrV6" -> SocketAddrV6Deserialize(slot, 0, b)
      [] t = "SocketAddr" -> SocketAddrDeserialize(slot, 0, b)

-----------------------------------------------------------------------------
(* Equality and ordering of the owned types (std::net), as Ordering values. *)

CmpInt(a, b) == IF a < b THEN "Less" ELSE IF a > b THEN "Greater" ELSE "Equal"

\* Ordering::then
Then(o1, o2) == IF o1 = "Equal" THEN o2 ELSE o1

\* Ordering::reverse
Reverse(o) == CASE o = "Less" -> "Greater" [] o = "Greater" -> "Less" [] OTHER -> o

\* Arrays of equal length compare lexicographically.
RECURSIVE CmpSeqFrom(_, _, _)
CmpSeqFrom(a, b, i) ==
    IF i > Len(a) THEN "Equal" ELSE Then(CmpInt(a[i], b[i]), CmpSeqFrom(a, b, i + 1))

CmpSeq(a, b) == CmpSeqFrom(a, b, 1)

Ipv4AddrCmp(a, b) == CmpSeq(a, b)
Ipv6AddrCmp(a, b) == CmpSeq(a, b)
IpAddrCmp(a, b) ==
    IF a.arm = b.arm
    THEN (IF a.arm = "V4" THEN Ipv4AddrCmp(a.ip, b.ip) ELSE Ipv6AddrCmp(a.ip, b.ip))
    ELSE (IF a.arm = "V4" THEN "Less" ELSE "Greater")
SocketAddrV4Cmp(a, b) == Then(Ipv4AddrCmp(a.ip, b.ip), CmpInt(a.port, b.port))
\* std compares ip, port, flowinfo and scope_id in this order (releases
\* before the derived ordering compared ip and port only).
SocketAddrV6Cmp(a, b) ==
    Then(Ipv6AddrCmp(a.ip, b.ip),
         Then(CmpInt(a.port, b.port),
              Then(CmpInt(a.flowinfo, b.flowinfo), CmpInt(a.scope_id, b.scope_id))))
SocketAddrCmp(a, b) ==
    IF a.arm = b.arm
    THEN (IF a.arm = "V4" THEN SocketAddrV4Cmp(a.addr, b.addr)
                          ELSE SocketAddrV6Cmp(a.addr, b.addr))
    ELSE (IF a.arm = "V4" THEN "Less" ELSE "Greater")

Ipv4AddrEq(a, b) == a = b
Ipv6AddrEq(a, b) == a = b
IpAddrEq(a, b) == a.arm = b.arm /\ a.ip = b.ip
SocketAddrV4Eq(a, b) == a.ip = b.ip /\ a.port = b.port
SocketAddrV6Eq(a, b) ==
    a.ip = b.ip /\ a.port = b.port /\ a.flowinfo = b.flowinfo /\ a.scope_id = b.scope_id
SocketAddrEq(a, b) ==
    /\ a.arm = b.arm
    /\ IF a.arm = "V4" THEN SocketAddrV4Eq(a.addr, b.addr) ELSE SocketAddrV6Eq(a.addr, b.addr)

\* a.cmp(b) and a == b of the owned type t.
OwnedCmp(t, a, b) ==
    CASE t = "Ipv4Addr" -> Ipv4AddrCmp(a, b)
      [] t = "Ipv6Addr" -> Ipv6AddrCmp(a, b)
      [] t = "IpAddr" -> IpAddrCmp(a, b)
      [] t = "SocketAddrV4" -> SocketAddrV4Cmp(a, b)
      [] t = "SocketAddrV6" -> SocketAddrV6Cmp(a, b)
      [] t = "SocketAddr" -> SocketAddrCmp(a, b)

OwnedEq(t, a, b) ==
    CASE t = "Ipv4Addr" -> Ipv4AddrEq(a, b)
      [] t = "Ipv6Addr" -> Ipv6AddrEq(a, b)
      [] t = "IpAddr" -> IpAddrEq(a, b)
      [] t = "SocketAddrV4" -> SocketAddrV4Eq(a, b)
      [] t = "SocketAddrV6" -> SocketAddrV6Eq(a, b)
      [] t = "SocketAddr" -> SocketAddrEq(a, b)

-----------------------------------------------------------------------------
(* derive(Ord, PartialOrd) on the archived types: the stored fields are     *)
(* compared in declaration order, an enum by discriminant first.  s and t   *)
(* are slots, so and to the offsets of the two archived values in them.     *)

\* derive(Ord) for ArchivedIpv4Addr { octets: [u8; 4] }
ArchivedIpv4AddrCmp(s, so, t, to) == CmpSeq(Cells(s, so, 4), Cells(t, to, 4))

\* derive(Ord) for ArchivedIpv6Addr { segments: [u16; 8] }
ArchivedIpv6AddrCmp(s, so, t, to, endian) ==
    CmpSeq(segments(s, so, endian), segments(t, to, endian))

\* derive(Ord) for ArchivedIpAddr
ArchivedIpAddrCmp(s, so, t, to, endian) ==
    IF s[so + 1] # t[to + 1] THEN CmpInt(s[so + 1], t[to + 1])
    ELSE IF ArchivedIpAddrArm(s, so) = "V4"
         THEN ArchivedIpv4AddrCmp(s, so + OffsetOfIpAddrVariantV4, t, to + OffsetOfIpAddrVariantV4)
         ELSE ArchivedIpv6AddrCmp(s, so + OffsetOfIpAddrVariantV6,
                                  t, to + OffsetOfIpAddrVariantV6, endian)

\* derive(Ord) for ArchivedSocketAddrV4 { ip, port }
ArchivedSocketAddrV4Cmp(s, so, t, to, b) ==
    Then(ArchivedIpv4AddrCmp(s, so + OffsetOfV4(b, "ip"), t, to + OffsetOfV4(b, "ip")),
         CmpInt(ReadU16(s, so + OffsetOfV4(b, "port"), b.endian),
                ReadU16(t, to + OffsetOfV4(b, "port"), b.endian)))

\* derive(Ord) for ArchivedSocketAddrV6 { ip, port, flowinfo, scope_id }
ArchivedSocketAddrV6Cmp(s, so, t, to, b) ==
    Then(ArchivedIpv6AddrCmp(s, so + OffsetOfV6(b, "ip"), t, to + OffsetOfV6(b, "ip"), b.endian),
    Then(CmpInt(ReadU16(s, so + OffsetOfV6(b, "port"), b.endian),
                ReadU16(t, to + OffsetOfV6(b, "port"), b.endian)),
    Then(CmpInt(ReadU32(s, so + OffsetOfV6(b, "flowinfo"), b.endian),
                ReadU32(t, to + OffsetOfV6(b, "flowinfo"), b.endian)),
         CmpInt(ReadU32(s, so + OffsetOfV6(b, "scope_id"), b.endian),
                ReadU32(t, to + OffsetOfV6(b, "scope_id"), b.endian)))))

\* derive(Ord) for ArchivedSocketAddr
ArchivedSocketAddrCmp(s, so, t, to, b) ==
    IF s[so + 1] # t[to + 1] THEN CmpInt(s[so + 1], t[to + 1])
    ELSE IF ArchivedSocketAddrArm(s, so) = "V4"
         THEN ArchivedSocketAddrV4Cmp(s, so + OffsetOfSocketAddrVariantV4,
                                      t, to + OffsetOfSocketAddrVariantV4, b)
         ELSE ArchivedSocketAddrV6Cmp(s, so + OffsetOfSocketAddrVariantV6,
                                      t, to + OffsetOfSocketAddrVariantV6, b)

\* archived.cmp(&other_archived) for two archived values of type ty.
ArchivedCmp(ty, s, t, b) ==
    CASE ty = "Ipv4Addr" -> ArchivedIpv4AddrCmp(s, 0, t, 0)
      [] ty = "Ipv6Addr" -> ArchivedIpv6AddrCmp(s, 0, t, 0, b.endian)
      [] ty = "IpAddr" -> ArchivedIpAddrCmp(s, 0, t, 0, b.endian)
      [] ty = "SocketAddrV4" -> ArchivedSocketAddrV4Cmp(s, 0, t, 0, b)
      [] ty = "SocketAddrV6" -> ArchivedSocketAddrV6Cmp(s, 0, t, 0, b)
      [] ty = "SocketAddr" -> ArchivedSocketAddrCmp(s, 0, t, 0, b)

-----------------------------------------------------------------------------
(* The bridge: PartialEq and PartialOrd between archived and owned values.  *)
(* s is the slot holding the archived operand, other / self the owned one.  *)

\* impl PartialEq<Ipv4Addr> for ArchivedIpv4Addr
ArchivedIpv4Addr_eq(s, other) == Ipv4AddrEq(as_ipv4(s, 0), other)
\* impl PartialEq<ArchivedIpv4Addr> for Ipv4Addr: other.eq(self)
Ipv4Addr_eq(self, s) == ArchivedIpv4Addr_eq(s, self)
\* impl PartialOrd<Ipv4Addr> for ArchivedIpv4Addr
ArchivedIpv4Addr_partial_cmp(s, other) == Ipv4AddrCmp(as_ipv4(s, 0), other)
\* impl PartialOrd<ArchivedIpv4Addr> for Ipv4Addr: other.partial_cmp(self)
Ipv4Addr_partial_cmp(self, s) == ArchivedIpv4Addr_partial_cmp(s, self)

\* impl PartialEq<Ipv6Addr> for ArchivedIpv6Addr
ArchivedIpv6Addr_eq(s, other, b) == Ipv6AddrEq(as_ipv6(s, 0, b.endian), other)
\* impl PartialEq<ArchivedIpv6Addr> for Ipv6Addr: other.eq(self)
Ipv6Addr_eq(self, s, b) == ArchivedIpv6Addr_eq(s, self, b)
\* impl PartialOrd<Ipv6Addr> for ArchivedIpv6Addr
ArchivedIpv6Addr_partial_cmp(s, other, b) == Ipv6AddrCmp(as_ipv6(s, 0, b.endian), other)
\* impl PartialOrd<ArchivedIpv6Addr> for Ipv6Addr: other.partial_cmp(self)
Ipv6Addr_partial_cmp(self, s, b) == ArchivedIpv6Addr_partial_cmp(s, self, b)

\* ArchivedIpAddr's eq answering true where the arms differ.
ArchivedIpAddr_eq_across_arms(s, other, b) ==
    CASE ArchivedIpAddrArm(s, 0) = "V4" ->
            IF other.arm = "V4"
            THEN Ipv4AddrEq(as_ipv4(s, OffsetOfIpAddrVariantV4), other.ip)
            ELSE TRUE
      [] ArchivedIpAddrArm(s, 0) = "V6" ->
            IF other.arm = "V6"
            THEN Ipv6AddrEq(as_ipv6(s, OffsetOfIpAddrVariantV6, b.endian), other.ip)
            ELSE TRUE
      [] OTHER -> FALSE

\* impl PartialEq<IpAddr> for ArchivedIpAddr: arm by arm, false across arms.
ArchivedIpAddr_eq(s, other, b) ==
    CASE ArchivedIpAddrArm(s, 0) = "V4" ->
            IF other.arm = "V4"
            THEN Ipv4AddrEq(as_ipv4(s, OffsetOfIpAddrVariantV4), other.ip)
            ELSE FALSE
      [] ArchivedIpAddrArm(s, 0) = "V6" ->
            IF other.arm = "V6"
            THEN Ipv6AddrEq(as_ipv6(s, OffsetOfIpAddrVariantV6, b.endian), other.ip)
            ELSE FALSE
      [] OTHER -> FALSE
\* impl PartialEq<ArchivedIpAddr> for IpAddr: other.eq(self)
IpAddr_eq(self, s, b) == ArchivedIpAddr_eq(s, self, b)
\* impl PartialOrd<IpAddr> for ArchivedIpAddr
ArchivedIpAddr_partial_cmp(s, other, b) == IpAddrCmp(as_ipaddr(s, 0, b.endian), other)
\* impl PartialOrd<ArchivedIpAddr> for IpAddr: other.partial_cmp(self)
IpAddr_partial_cmp(self, s, b) == ArchivedIpAddr_partial_cmp(s, self, b)

\* impl PartialEq<SocketAddrV4> for ArchivedSocketAddrV4
ArchivedSocketAddrV4_eq(s, other, b) == SocketAddrV4Eq(as_socket_addr_v4(s, 0, b), other)
\* impl PartialEq<ArchivedSocketAddrV4> for SocketAddrV4: other.eq(self)
SocketAddrV4_eq(self, s, b) == ArchivedSocketAddrV4_eq(s, self, b)
\* impl PartialOrd<SocketAddrV4> for ArchivedSocketAddrV4
ArchivedSocketAddrV4_partial_cmp(s, other, b) ==
    SocketAddrV4Cmp(as_socket_addr_v4(s, 0, b), other)
\* impl PartialOrd<ArchivedSocketAddrV4> for SocketAddrV4: other.partial_cmp(self)
SocketAddrV4_partial_cmp(self, s, b) == ArchivedSocketAddrV4_partial_cmp(s, self, b)

\* impl PartialEq<SocketAddrV6> for ArchivedSocketAddrV6
ArchivedSocketAddrV6_eq(s, other, b) == SocketAddrV6Eq(as_socket_addr_v6(s, 0, b), other)
\* impl PartialEq<ArchivedSocketAddrV6> for SocketAddrV6: other.eq(self)
SocketAddrV6_eq(self, s, b) == ArchivedSocketAddrV6_eq(s, self, b)
\* impl PartialOrd<SocketAddrV6> for ArchivedSocketAddrV6
ArchivedSocketAddrV6_partial_cmp(s, other, b) ==
    SocketAddrV6Cmp(as_socket_addr_v6(s, 0, b), other)
\* impl PartialOrd<ArchivedSocketAddrV6> for SocketAddrV6: other.partial_cmp(self)
SocketAddrV6_partial_cmp(self, s, b) == ArchivedSocketAddrV6_partial_cmp(s, self, b)

\* impl PartialEq<SocketAddr> for ArchivedSocketAddr
ArchivedSocketAddr_eq(s, other, b) ==
    LET a == as_socket_addr(s, 0, b)
    IN  a.arm # "invalid" /\ SocketAddrEq(a, other)
\* impl PartialEq<ArchivedSocketAddr> for SocketAddr: other.eq(self)
SocketAddr_eq(self, s, b) == ArchivedSocketAddr_eq(s, self, b)
\* impl PartialOrd<SocketAddr> for ArchivedSocketAddr
ArchivedSocketAddr_partial_cmp(s, other, b) == SocketAddrCmp(as_socket_addr(s, 0, b), other)
\* impl PartialOrd<ArchivedSocketAddr> for SocketAddr: other.partial_cmp(self)
SocketAddr_partial_cmp(self, s, b) == ArchivedSocketAddr_partial_cmp(s, self, b)

\* archived == owned
ArchivedEqOwned(ty, s, other, b) ==
    CASE ty = "Ipv4Addr" -> ArchivedIpv4Addr_eq(s, other)
      [] ty = "Ipv6Addr" -> ArchivedIpv6Addr_eq(s, other, b)
      [] ty = "IpAddr" -> ArchivedIpAddr_eq(s, other, b)
      [] ty = "SocketAddrV4" -> ArchivedSocketAddrV4_eq(s, other, b)
      [] ty = "SocketAddrV6" -> ArchivedSocketAddrV6_eq(s, other, b)
      [] ty = "SocketAddr" -> ArchivedSocketAddr_eq(s, other, b)

\* owned == archived
OwnedEqArchived(ty, self, s, b) ==
    CASE ty = "Ipv4Addr" -> Ipv4Addr_eq(self, s)
      [] ty = "Ipv6Addr" -> Ipv6Addr_eq(self, s, b)
      [] ty = "IpAddr" -> IpAddr_eq(self, s, b)
      [] ty = "SocketAddrV4" -> SocketAddrV4_eq(self, s, b)
      [] ty = "SocketAddrV6" -> SocketAddrV6_eq(self, s, b)
      [] ty = "SocketAddr" -> SocketAddr_eq(self, s, b)

\* archived.partial_cmp(&owned)
ArchivedCmpOwned(ty, s, other, b) ==
    CASE ty = "Ipv4Addr" -> ArchivedIpv4Addr_partial_cmp(s, other)
      [] ty = "Ipv6Addr" -> ArchivedIpv6Addr_partial_cmp(s, other, b)
      [] ty = "IpAddr" -> ArchivedIpAddr_partial_cmp(s, other, b)
      [] ty = "SocketAddrV4" -> ArchivedSocketAddrV4_partial_cmp(s, other, b)
      [] ty = "SocketAddrV6" -> ArchivedSocketAddrV6_partial_cmp(s, other, b)
      [] ty = "SocketAddr" -> ArchivedSocketAddr_partial_cmp(s, other, b)

\* owned.partial_cmp(&archived)
OwnedCmpArchived(ty, self, s, b) ==
    CASE ty = "Ipv4Addr" -> Ipv4Addr_partial_cmp(self, s)
      [] ty = "Ipv6Addr" -> Ipv6Addr_partial_cmp(self, s, b)
      [] ty = "IpAddr" -> IpAddr_partial_cmp(self, s, b)
      [] ty = "SocketAddrV4" -> SocketAddrV4_partial_cmp(self, s, b)
      [] ty = "SocketAddrV6" -> SocketAddrV6_partial_cmp(self, s, b)
      [] ty = "SocketAddr" -> SocketAddr_partial_cmp(self, s, b)

-----------------------------------------------------------------------------
(* Serialize and Deserialize as the caller sees them: the Result, what it   *)
(* carries and the backend afterwards. A backend has a flag saying whether  *)
(* any call on it fails and the count of the calls made on it.              *)

\* A serialize that asks the backend for something first.
Ipv4Serialize_through_backend(self, s) ==
    [result |-> IF s.failing THEN "Err" ELSE "Ok",
     resolver |-> IF s.failing THEN "none" ELSE "unit",
     backend |-> [s EXCEPT !.calls = @ + 1]]

Ipv4Serialize(self, s) == [result |-> "Ok", resolver |-> "unit", backend |-> s]

Ipv6Serialize(self, s) == [result |-> "Ok", resolver |-> "unit", backend |-> s]

\* match self { V4(ip) => ip.serialize(serializer), V6(ip) => ... }
IpAddrSerialize(self, s) ==
    IF self.arm = "V4" THEN Ipv4Serialize(self.ip, s) ELSE Ipv6Serialize(self.ip, s)

SocketAddrV4Serialize(self, s) == [result |-> "Ok", resolver |-> "unit", backend |-> s]

SocketAddrV6Serialize(self, s) == [result |-> "Ok", resolver |-> "unit", backend |-> s]

SocketAddrSerialize(self, s) ==
    IF self.arm = "V4"
    THEN SocketAddrV4Serialize(self.addr, s)
    ELSE SocketAddrV6Serialize(self.addr, s)

SerializeCall(t, self, s) ==
    CASE t = "Ipv4Addr" -> Ipv4Serialize(self, s)
      [] t = "Ipv6Addr" -> Ipv6Serialize(self, s)
      [] t = "IpAddr" -> IpAddrSerialize(self, s)
      [] t = "SocketAddrV4" -> SocketAddrV4Serialize(self, s)
      [] t = "SocketAddrV6" -> SocketAddrV6Serialize(self, s)
      [] t = "SocketAddr" -> SocketAddrSerialize(self, s)

\* Deserialize::deserialize: every impl takes the deserializer as `_` and
\* returns Ok of the value read from the archive.
DeserializeCall(t, slot, b, d) ==
    [result |-> "Ok", value |-> DeserializeValue(t, slot, b), backend |-> d]

-----------------------------------------------------------------------------
(* The loopback predicate of the archived types and of the owned ones.      *)

\* std: 127.0.0.0/8.
Ipv4Addr_is_loopback(ip) == ip[1] = 127

\* std: ::1.
Ipv6Addr_is_loopback(ip) == ip = <<0, 0, 0, 0, 0, 0, 0, 1>>

IpAddr_is_loopback(x) ==
    IF x.arm = "V4" THEN Ipv4Addr_is_loopback(x.ip) ELSE Ipv6Addr_is_loopback(x.ip)

ArchivedIpv4Addr_is_loopback(slot, off) == Ipv4Addr_is_loopback(as_ipv4(slot, off))

\* A loopback test on the segments as they are stored.
ArchivedIpv6Addr_is_loopback_stored(slot, off, endian) ==
    Ipv6Addr_is_loopback(segments(slot, off, endian))

ArchivedIpv6Addr_is_loopback(slot, off, endian) ==
    Ipv6Addr_is_loopback(as_ipv6(slot, off, endian))

ArchivedIpAddr_is_loopback(slot, off, endian) ==
    IF ArchivedIpAddrArm(slot, off) = "V4"
    THEN ArchivedIpv4Addr_is_loopback(slot, off + OffsetOfIpAddrVariantV4)
    ELSE ArchivedIpv6Addr_is_loopback(slot, off + OffsetOfIpAddrVariantV6, endian)

\* ArchivedSocketAddrV4::ip and ArchivedSocketAddrV6::ip: the offset of the
\* archived address the returned reference points at.
ArchivedSocketAddrV4_ip(off, b) == off + OffsetOfV4(b, "ip")

ArchivedSocketAddrV6_ip(off, b) == off + OffsetOfV6(b, "ip")

\* ArchivedSocketAddr::ip: an owned IpAddr.
ArchivedSocketAddr_ip(slot, off, b) ==
    IF ArchivedSocketAddrArm(slot, off) = "V4"
    THEN [arm |-> "V4",
          ip |-> as_ipv4(slot, ArchivedSocketAddrV4_ip(off + OffsetOfSocketAddrVariantV4, b))]
    ELSE [arm |-> "V6",
          ip |-> as_ipv6(slot, ArchivedSocketAddrV6_ip(off + OffsetOfSocketAddrVariantV6, b),
                           b.endian)]

\* is_loopback of the archived address, or of the ip() of the archived endpoint.
ArchivedIsLoopback(t, slot, b) ==
    CASE t = "Ipv4Addr" -> ArchivedIpv4Addr_is_loopback(slot, 0)
      [] t = "Ipv6Addr" -> ArchivedIpv6Addr_is_loopback(slot, 0, b.endian)
      [] t = "IpAddr" -> ArchivedIpAddr_is_loopback(slot, 0, b.endian)
      [] t = "SocketAddrV4" ->
            ArchivedIpv4Addr_is_loopback(slot, ArchivedSocketAddrV4_ip(0, b))
      [] t = "SocketAddrV6" ->
            ArchivedIpv6Addr_is_loopback(slot, ArchivedSocketAddrV6_ip(0, b), b.endian)
      [] t = "SocketAddr" -> IpAddr_is_loopback(ArchivedSocketAddr_ip(slot, 0, b))

\* is_loopback of the owned address, or of the ip() of the owned endpoint.
OwnedIsLoopback(t, x) ==
    CASE t = "Ipv4Addr" -> Ipv4Addr_is_loopback(x)
      [] t = "Ipv6Addr" -> Ipv6Addr_is_loopback(x)
      [] t = "IpAddr" -> IpAddr_is_loopback(x)
      [] t = "SocketAddrV4" -> Ipv4Addr_is_loopback(x.ip)
      [] t = "SocketAddrV6" -> Ipv6Addr_is_loopback(x.ip)
      [] t = "SocketAddr" ->
            IF x.arm = "V4"
            THEN Ipv4Addr_is_loopback(x.addr.ip)
            ELSE Ipv6Addr_is_loopback(x.addr.ip)

-----------------------------------------------------------------------------
(* The values the model draws its inputs from. *)

LowVals == 0..MaxLow

\* 0.0.b.1, 127.0.b.1 (loopback), 255.0.b.1
Ipv4Vals == {<<a, 0, b, 1>> : a \in {0, 127, 255}, b \in LowVals}

\* a:0:0:0:0:0:0:b, with a = 1 (bytes 00 01) and a = 256 (bytes 01 00);
\* ::1 is the loopback address.
Ipv6Vals == {<<a, 0, 0, 0, 0, 0, 0, b>> : a \in {0, 1, 256}, b \in LowVals}

IpAddrVals ==
    {[arm |-> "V4", ip |-> <<127, 0, b, 1>>] : b \in LowVals}
    \cup {[arm |-> "V6", ip |-> <<0, 0, 0, 0, 0, 0, 0, b>>] : b \in LowVals}
    \cup {[arm |-> "V6", ip |-> <<256, 0, 0, 0, 0, 0, 0, 1>>]}

SocketAddrV4Vals ==
    {[ip |-> <<127, 0, b, 1>>, port |-> p] : b \in LowVals, p \in {443, 8080}}

SocketAddrV6Vals ==
    {[ip |-> <<a, 0, 0, 0, 0, 0, 0, 1>>, port |-> 443, flowinfo |-> f, scope_id |-> sc] :
        a \in {0, 256}, f \in {0, 16909060}, sc \in LowVals}

SocketAddrVals ==
    {[arm |-> "V4", addr |-> [ip |-> <<127, 0, 0, 1>>, port |-> p]] : p \in {443, 8080}}
    \cup {[arm |-> "V6",
           addr |-> [ip |-> <<0, 0, 0, 0, 0, 0, 0, 1>>, port |-> 443,
                     flowinfo |-> f, scope_id |-> 0]] : f \in LowVals}

Vals(t) ==
    CASE t = "Ipv4Addr" -> Ipv4Vals
      [] t = "Ipv6Addr" -> Ipv6Vals
      [] t = "IpAddr" -> IpAddrVals
      [] t = "SocketAddrV4" -> SocketAddrV4Vals
      [] t = "SocketAddrV6" -> SocketAddrV6Vals
      [] t = "SocketAddr" -> SocketAddrVals

\* The builds that differ for type t: the field order of a struct that t
\* does not contain is left at the declared one.
BuildsFor(t) ==
    {b \in Builds :
        /\ (t \notin {"SocketAddrV4", "SocketAddr"} => b.orderV4 = DeclaredV4)
        /\ (t \notin {"SocketAddrV6", "SocketAddr"} => b.orderV6 = DeclaredV6)}

-----------------------------------------------------------------------------
(* The state machine: one value v of one type is serialized, resolved into  *)
(* a fresh slot at some position and deserialized; a second value w of the  *)
(* type is archived into a slot of its own; the two are compared through    *)
(* every comparison the archived and the owned type offer.                  *)

VARIABLES
    build,      \* the host byte order and field orders of this build
    typ,        \* the type under test
    v,          \* the owned value
    pc,         \* "start", "serialized", "resolved", "deserialized", "both", "compared", "rearchived"
    resolver,   \* what serialize returned: "none" before, "unit" for Ok(())
    pos,        \* the position v was resolved at
    writes,     \* the writes of v's resolve, in program order
    out,        \* v's slot
    decoded,    \* what deserialize returned
    w,          \* the second owned value
    outW,       \* w's slot
    res,        \* the results of the comparisons
    backend,    \* the serializer / deserializer the adapters are handed
    status,     \* the Result of serialize and of deserialize: "none", "Ok", "Err"
    preds,      \* the results of the predicates
    out2,       \* the slot the decoded value is archived into again
    buffer,     \* one buffer holding the slots of two values
    tasks,      \* the two resolves in progress on the buffer
    touched,    \* how many times each cell of the buffer was written
    input,      \* the attributes of the item a derive is applied to
    cursor,     \* where parse_attributes is in them
    result,     \* the Attributes being filled
    outcome     \* what parse_attributes returned

mainVars == <<typ, v, pc, resolver, pos, writes, out, decoded, w, outW, res>>
adapterVars == <<backend, status, preds, out2>>
interleaveVars == <<buffer, tasks, touched>>
attrVars == <<input, cursor, result, outcome>>

vars == <<build, mainVars, adapterVars, interleaveVars, attrVars>>

NoResult == [computed |-> FALSE]

NoStatus == [serialize |-> "none", deserialize |-> "none"]

\* A backend that is never called: the state the adapters are handed when
\* nothing is said about the backend.
QuietBackend == [failing |-> FALSE, calls |-> 0]

Backends == {[failing |-> f, calls |-> 0] : f \in BOOLEAN}

\* The variables of the other state machines, at rest.
InterleaveIdle == buffer = <<>> /\ tasks = <<>> /\ touched = <<>>
AttrIdle == input = <<>> /\ cursor = <<>> /\ result = <<>> /\ outcome = "none"

\* One value of one type on one build, nothing done to it yet.
InitValue ==
    /\ typ \in Types
    /\ build \in BuildsFor(typ)
    /\ v \in Vals(typ)
    /\ pc = "start"
    /\ resolver = "none"
    /\ pos = 0
    /\ writes = <<>>
    /\ out = UninitSlot(typ, build)
    /\ decoded = <<>>
    /\ w = <<>>
    /\ outW = UninitSlot(typ, build)
    /\ res = NoResult
    /\ status = NoStatus
    /\ preds = NoResult
    /\ out2 = <<>>
    /\ InterleaveIdle
    /\ AttrIdle

Init == InitValue /\ backend = QuietBackend

\* Serialize::serialize: Ok(()) for every type (the unions forward to the
\* payload's serialize, which returns Ok(())).
Serialize ==
    /\ pc = "start"
    /\ LET r == SerializeCall(typ, v, backend) IN
        /\ resolver' = r.resolver
        /\ status' = [status EXCEPT !.serialize = r.result]
        /\ backend' = r.backend
    /\ pc' = "serialized"
    /\ UNCHANGED <<build, typ, v, pos, writes, out, decoded, w, outW, res,
                   preds, out2, interleaveVars, attrVars>>

\* Archive::resolve of v at position p into the slot out.
Resolve ==
    /\ pc = "serialized"
    /\ status.serialize = "Ok"
    /\ \E p \in Positions :
        /\ pos' = p
        /\ writes' = ResolveWrites(typ, v, p, build)
        /\ out' = ApplyWrites(out, ResolveWrites(typ, v, p, build))
    /\ pc' = "resolved"
    /\ UNCHANGED <<build, typ, v, resolver, decoded, w, outW, res,
                   adapterVars, interleaveVars, attrVars>>

\* Deserialize::deserialize of the archived v.
Deserialize ==
    /\ pc = "resolved"
    /\ LET r == DeserializeCall(typ, out, build, backend) IN
        /\ decoded' = r.value
        /\ status' = [status EXCEPT !.deserialize = r.result]
        /\ backend' = r.backend
    /\ pc' = "deserialized"
    /\ UNCHANGED <<build, typ, v, resolver, pos, writes, out, w, outW, res,
                   preds, out2, interleaveVars, attrVars>>

\* A second value of the type, archived at some position into its own slot.
ResolveOther ==
    /\ pc = "deserialized"
    /\ \E x \in Vals(typ), q \in Positions :
        /\ w' = x
        /\ outW' = ApplyWrites(outW, ResolveWrites(typ, x, q, build))
    /\ pc' = "both"
    /\ UNCHANGED <<build, typ, v, resolver, pos, writes, out, decoded, res,
                   adapterVars, interleaveVars, attrVars>>

\* Every comparison between the two values and their archives.
Compare ==
    /\ pc = "both"
    /\ res' = [computed |-> TRUE,
               owned_eq |-> OwnedEq(typ, v, w),
               owned_cmp |-> OwnedCmp(typ, v, w),
               archived_eq_owned |-> ArchivedEqOwned(typ, out, w, build),
               owned_eq_archived |-> OwnedEqArchived(typ, w, out, build),
               archived_cmp_owned |-> ArchivedCmpOwned(typ, out, w, build),
               owned_cmp_archived |-> OwnedCmpArchived(typ, v, outW, build),
               archived_cmp_archived |-> ArchivedCmp(typ, out, outW, build)]
    /\ pc' = "compared"
    /\ UNCHANGED <<build, typ, v, resolver, pos, writes, out, decoded, w, outW,
                   adapterVars, interleaveVars, attrVars>>

Next == Serialize \/ Resolve \/ Deserialize \/ ResolveOther \/ Compare

Spec == Init /\ [][Next]_vars

-----------------------------------------------------------------------------
(* The same value handed to the adapters with any backend, asked for its    *)
(* loopback predicate, decoded, and the decoded value archived again into   *)
(* a slot that held something else before.                                  *)

\* What a destination slot may hold before resolve writes into it.
PriorFills == {Uninit, 0, 255}

FilledSlot(t, b, f) == [i \in 1..SizeOf(t, b) |-> f]

InitAdapters == InitValue /\ backend \in Backends

\* is_loopback of the archive, of the owned value and of the decoded one.
Predicates ==
    /\ pc = "deserialized"
    /\ ~preds.computed
    /\ preds' = [computed |-> TRUE,
                 archived |-> ArchivedIsLoopback(typ, out, build),
                 owned |-> OwnedIsLoopback(typ, v),
                 decoded |-> OwnedIsLoopback(typ, decoded)]
    /\ UNCHANGED <<build, mainVars, backend, status, out2, interleaveVars, attrVars>>

\* Archive::resolve of the decoded value at position q into a slot that
\* held f in every byte.
Rearchive ==
    /\ pc = "deserialized"
    /\ status.deserialize = "Ok"
    /\ preds.computed
    /\ \E q \in Positions, f \in PriorFills :
        out2' = ApplyWrites(FilledSlot(typ, build, f),
                            ResolveWrites(typ, decoded, q, build))
    /\ pc' = "rearchived"
    /\ UNCHANGED <<build, typ, v, resolver, pos, writes, out, decoded, w, outW, res,
                   backend, status, preds, interleaveVars, attrVars>>

NextAdapters == Serialize \/ Resolve \/ Predicates \/ Deserialize \/ Rearchive

SpecAdapters == InitAdapters /\ [][NextAdapters]_vars

-----------------------------------------------------------------------------
(* Two values resolved into two disjoint slots of one buffer, the writes of *)
(* the two resolves interleaved in every order.                             *)

\* The values archived side by side: one of each shape of each type.
InterleaveVals(t) ==
    CASE t = "Ipv4Addr" -> {<<127, 0, 0, 1>>}
      [] t = "Ipv6Addr" -> {<<0, 0, 0, 0, 0, 0, 0, 1>>}
      [] t = "IpAddr" ->
            {x \in IpAddrVals : x.ip[Len(x.ip)] = 1 /\ x.ip[1] \in {0, 127} /\ x.ip[3] = 0}
      [] t = "SocketAddrV4" -> {x \in SocketAddrV4Vals : x.ip[3] = 0 /\ x.port = 8080}
      [] t = "SocketAddrV6" ->
            {x \in SocketAddrV6Vals : x.ip[1] = 0 /\ x.flowinfo # 0 /\ x.scope_id = 1}
      [] t = "SocketAddr" ->
            {x \in SocketAddrVals : x.addr.port = 443 /\ (x.arm = "V6" => x.addr.flowinfo = 1)}

\* The alignment every slot of the buffer is placed at.
SlotAlign == Max(AlignOfSocketAddrV4, AlignOfSocketAddrV6)

\* The writes ws of a resolve whose out slot starts at byte base of the buffer.
InBuffer(ws, base) == [k \in DOMAIN ws |-> [ws[k] EXCEPT !.off = @ + base]]

\* A resolve of x at position p, its slot at byte p of the buffer.
Task(t, x, p, b) ==
    [typ |-> t, val |-> x, pos |-> p, size |-> SizeOf(t, b),
     writes |-> InBuffer(ResolveWrites(t, x, p, b), p), done |-> 0]

InitInterleave ==
    /\ \E ta \in Types, tb \in Types :
        /\ build \in BuildsFor(ta) \cup BuildsFor(tb)
        /\ \E x \in InterleaveVals(ta), y \in InterleaveVals(tb), p \in Positions :
            LET q == AlignUp(p + SizeOf(ta, build), SlotAlign) IN
            /\ tasks = <<Task(ta, x, p, build), Task(tb, y, q, build)>>
            /\ buffer = [i \in 1..(q + SizeOf(tb, build)) |-> Uninit]
            /\ touched = [i \in 1..(q + SizeOf(tb, build)) |-> 0]
    /\ typ = "none"
    /\ v = <<>>
    /\ pc = "interleave"
    /\ resolver = "none"
    /\ pos = 0
    /\ writes = <<>>
    /\ out = <<>>
    /\ decoded = <<>>
    /\ w = <<>>
    /\ outW = <<>>
    /\ res = NoResult
    /\ backend = QuietBackend
    /\ status = NoStatus
    /\ preds = NoResult
    /\ out2 = <<>>
    /\ AttrIdle

\* The next write of resolve i: one ptr.write into the buffer.
WriteStep(i) ==
    /\ tasks[i].done < Len(tasks[i].writes)
    /\ LET wr == tasks[i].writes[tasks[i].done + 1] IN
        /\ buffer' = ApplyWrite(buffer, wr)
        /\ touched' = [c \in DOMAIN touched |->
                          IF wr.off < c /\ c <= wr.off + Len(wr.bytes)
                          THEN touched[c] + 1 ELSE touched[c]]
    /\ tasks' = [tasks EXCEPT ![i].done = @ + 1]
    /\ UNCHANGED <<build, mainVars, adapterVars, attrVars>>

\* Either resolve may make its next write.
NextInterleave == \E i \in {1, 2} : WriteStep(i)

SpecInterleave == InitInterleave /\ [][NextInterleave]_vars

-----------------------------------------------------------------------------
(* rkyv_derive: parse_attributes.  An attribute argument (a NestedMeta) is  *)
(* a record: kind is "lit", "path", "list" or "namevalue"; name its path;   *)
(* lit the kind of literal of a name-value; nested the arguments of a list. *)
(* An Option is None or the value stored; a stored value records where in   *)
(* the input it came from (attribute, argument, argument of the list) and   *)
(* the argument itself.                                                     *)

MaxAttrs == 2
MaxItems == 2

None == <<>>

Lit == [kind |-> "lit", name |-> "", lit |-> "str", nested |-> <<>>]
MetaPath(n) == [kind |-> "path", name |-> n, lit |-> "", nested |-> <<>>]
MetaList(n, args) == [kind |-> "list", name |-> n, lit |-> "", nested |-> args]
MetaNameValue(n, l) == [kind |-> "namevalue", name |-> n, lit |-> l, nested |-> <<>>]

Some(at, meta) == [at |-> at, tokens |-> meta]

\* impl Default for Repr
ReprDefault ==
    [rust |-> None, transparent |-> None, packed |-> None, c |-> None, int |-> None]

\* impl Default for Attributes
AttributesDefault ==
    [copy |-> None, repr |-> ReprDefault, derives |-> None, compares |-> None,
     serialize_bound |-> None, deserialize_bound |-> None, archived |-> None,
     resolver |-> None, strict |-> None]

OkUnit(attributes) == [attributes |-> attributes, err |-> "", span |-> None]
Err(attributes, message, span) == [attributes |-> attributes, err |-> message, span |-> span]

\* A try_set_attribute that assigns whatever the attribute holds.
try_set_attribute_overwriting(attributes, field, value, name) ==
    OkUnit([attributes EXCEPT ![field] = value])

\* try_set_attribute(&mut attributes.<field>, value, name)
try_set_attribute(attributes, field, value, name) ==
    IF attributes[field] = None
    THEN OkUnit([attributes EXCEPT ![field] = value])
    ELSE Err(attributes, name \o " already specified", value.tokens)

\* The loop over the arguments of bound(...), from argument k on.
RECURSIVE parse_bounds(_, _, _, _)
parse_bounds(attributes, list, k, at) ==
    IF k > Len(list.nested) THEN OkUnit(attributes)
    ELSE LET bound == list.nested[k] IN
        IF bound.kind = "namevalue"
        THEN IF bound.lit = "str"
             THEN IF bound.name = "serialize"
                  THEN IF attributes.serialize_bound = None
                       THEN parse_bounds(
                                [attributes EXCEPT !.serialize_bound = Some(at \o <<k>>, bound)],
                                list, k + 1, at)
                       ELSE Err(attributes, "serialize bound already specified", bound)
                  ELSE IF bound.name = "deserialize"
                  THEN IF attributes.deserialize_bound = None
                       THEN parse_bounds(
                                [attributes EXCEPT !.deserialize_bound = Some(at \o <<k>>, bound)],
                                list, k + 1, at)
                       ELSE Err(attributes, "serialize bound already specified", bound)
                  ELSE Err(attributes, "bounds must be either serialize or deserialize", bound)
             ELSE Err(attributes, "bounds arguments must be a string", bound)
        ELSE Err(attributes,
                 "bounds arguments must be serialize or deserialize bounds to apply", bound)

\* The first argument of compare(...) that is not a path, 0 if all are.
FirstNonPath(args) ==
    IF \A k \in DOMAIN args : args[k].kind = "path" THEN 0
    ELSE CHOOSE k \in DOMAIN args :
            /\ args[k].kind # "path"
            /\ \A j \in 1..(k - 1) : args[j].kind = "path"


\* parse_archive_attributes(&mut attributes, meta), meta found at `at`.
parse_archive_attributes(attributes, meta, at) ==
    LET value == Some(at \o <<0>>, meta) IN
    CASE meta.kind = "path" ->
            IF meta.name = "copy"
            THEN try_set_attribute(attributes, "copy", value, "copy")
            ELSE IF meta.name = "strict"
            THEN try_set_attribute(attributes, "strict", value, "strict")
            ELSE Err(attributes, "unrecognized archive parameter", meta)
      [] meta.kind = "list" ->
            IF meta.name = "derive"
            THEN try_set_attribute(attributes, "derives", value, "derive")
            ELSE IF meta.name = "compare"
            THEN IF attributes.compares = None
                 THEN IF FirstNonPath(meta.nested) = 0
                      THEN OkUnit([attributes EXCEPT !.compares = value])
                      ELSE Err(attributes,
                               "compare arguments must be compare traits to derive",
                               meta.nested[FirstNonPath(meta.nested)])
                 ELSE Err(attributes, "compares already specified", meta)
            ELSE IF meta.name = "bound"
            THEN parse_bounds(attributes, meta, 1, at)
            ELSE Err(attributes, "unrecognized archive parameter", meta)
      [] meta.kind = "namevalue" ->
            IF meta.name = "archived"
            THEN IF meta.lit = "str"
                 THEN try_set_attribute(attributes, "archived", value, "archived")
                 ELSE Err(attributes, "archived must be a string", meta)
            ELSE IF meta.name = "resolver"
            THEN IF meta.lit = "str"
                 THEN try_set_attribute(attributes, "resolver", value, "resolver")
                 ELSE Err(attributes, "resolver must be a string", meta)
            ELSE Err(attributes, "unrecognized archive parameter", meta)

\* A repr argument recorded only if its slot is still empty.
repr_argument_keep_first(repr, n, at) ==
    LET slot == CASE n.name = "rust" -> "rust"
                  [] n.name = "transparent" -> "transparent"
                  [] n.name = "packed" -> "packed"
                  [] n.name = "C" -> "c"
                  [] OTHER -> "int"
    IN IF n.kind = "path" /\ repr[slot] = None
       THEN [repr EXCEPT ![slot] = Some(at \o <<0>>, n)]
       ELSE repr

\* The body of the loop over the arguments of repr(...).
repr_argument(repr, n, at) ==
    IF n.kind = "path"
    THEN IF n.name = "rust" THEN [repr EXCEPT !.rust = Some(at \o <<0>>, n)]
         ELSE IF n.name = "transparent" THEN [repr EXCEPT !.transparent = Some(at \o <<0>>, n)]
         ELSE IF n.name = "packed" THEN [repr EXCEPT !.packed = Some(at \o <<0>>, n)]
         ELSE IF n.name = "C" THEN [repr EXCEPT !.c = Some(at \o <<0>>, n)]
         ELSE [repr EXCEPT !.int = Some(at \o <<0>>, n)]
    ELSE repr

\* The arguments a bound(...) is given.
BoundArgs ==
    {MetaNameValue("serialize", "str"), MetaNameValue("deserialize", "str"),
     MetaNameValue("serialize", "int"), MetaNameValue("clone", "str"),
     MetaPath("deserialize")}

BoundLists == {<<>>} \cup {<<x>> : x \in BoundArgs} \cup {<<x, y>> : x, y \in BoundArgs}

\* The arguments an archive(...) is given.
ArchiveArgs ==
    {Lit}
    \cup {MetaPath(n) : n \in {"copy", "strict", "derive", "inline"}}
    \cup {MetaList("derive", <<MetaPath("Debug")>>), MetaList("inline", <<>>)}
    \cup {MetaList("compare", a) : a \in {<<>>, <<MetaPath("PartialEq")>>, <<Lit>>}}
    \cup {MetaList("bound", a) : a \in BoundLists}
    \cup {MetaNameValue(n, l) : n \in {"archived", "resolver", "name"}, l \in {"str", "int"}}

\* The arguments a repr(...) is given.
ReprArgs ==
    {MetaPath(n) : n \in {"rust", "Rust", "transparent", "packed", "C", "u8"}}
    \cup {MetaList("align", <<Lit>>)}

Parsing == [state |-> "parsing", message |-> "", span |-> None]

InitAttrs ==
    /\ input = None
    /\ cursor = [attr |-> "none", attrs |-> 0, items |-> 0]
    /\ result = AttributesDefault
    /\ outcome = Parsing
    /\ build = [endian |-> "little", strict |-> TRUE,
                orderV4 |-> DeclaredV4, orderV6 |-> DeclaredV6]
    /\ typ = "none"
    /\ v = <<>>
    /\ pc = "attributes"
    /\ resolver = "none"
    /\ pos = 0
    /\ writes = <<>>
    /\ out = <<>>
    /\ decoded = <<>>
    /\ w = <<>>
    /\ outW = <<>>
    /\ res = NoResult
    /\ backend = QuietBackend
    /\ status = NoStatus
    /\ preds = NoResult
    /\ out2 = <<>>
    /\ InterleaveIdle

\* for attr in input.attrs.iter(): the next attribute is archive(...),
\* repr(...) or anything else (not outer, not a list, another path).
NextAttr ==
    /\ outcome.state = "parsing"
    /\ cursor.attrs < MaxAttrs
    /\ \E path \in {"archive", "repr", "other"} :
        cursor' = [cursor EXCEPT !.attr = path, !.attrs = @ + 1]
    /\ UNCHANGED <<build, mainVars, adapterVars, interleaveVars, input, result, outcome>>

\* The next argument of the archive(...) at hand.
ArchiveArg ==
    /\ outcome.state = "parsing"
    /\ cursor.attr = "archive"
    /\ cursor.items < MaxItems
    /\ \E nested \in ArchiveArgs :
        /\ input' = nested
        /\ IF nested.kind = "lit"
           THEN UNCHANGED <<result, outcome>>
           ELSE LET r == parse_archive_attributes(
                             result, nested, <<cursor.attrs, cursor.items + 1>>) IN
                /\ result' = r.attributes
                /\ outcome' = IF r.err = "" THEN outcome
                              ELSE [state |-> "Err", message |-> r.err, span |-> r.span]
    /\ cursor' = [cursor EXCEPT !.items = @ + 1]
    /\ UNCHANGED <<build, mainVars, adapterVars, interleaveVars>>

\* The next argument of the repr(...) at hand.
ReprArg ==
    /\ outcome.state = "parsing"
    /\ cursor.attr = "repr"
    /\ cursor.items < MaxItems
    /\ \E n \in ReprArgs :
        /\ input' = n
        /\ result' = [result EXCEPT
                         !.repr = repr_argument(@, n, <<cursor.attrs, cursor.items + 1>>)]
    /\ cursor' = [cursor EXCEPT !.items = @ + 1]
    /\ UNCHANGED <<build, mainVars, adapterVars, interleaveVars, outcome>>

\* The attributes are exhausted: Ok(result).
ReturnOk ==
    /\ outcome.state = "parsing"
    /\ outcome' = [state |-> "Ok", message |-> "", span |-> None]
    /\ UNCHANGED <<build, mainVars, adapterVars, interleaveVars, input, cursor, result>>

NextAttrs == NextAttr \/ ArchiveArg \/ ReprArg \/ ReturnOk

SpecAttrs == InitAttrs /\ [][NextAttrs]_vars

-----------------------------------------------------------------------------
(* The claims. *)

Resolved == pc \in {"resolved", "deserialized", "both", "compared"}
Deserialized == pc \in {"deserialized", "both", "compared"}
IsUnion == typ \in {"IpAddr", "SocketAddr"}

\* The slot a resolve of x at position p leaves, starting from a fresh slot.
SlotAfter(t, x, p, b) == ApplyWrites(UninitSlot(t, b), ResolveWrites(t, x, p, b))

\* C1: round trip: a value that was serialized, resolved into a slot at
\* any position and deserialized from that slot comes back equal: the same
\* arm and the same octets / segments, port, flowinfo and scope_id.
C1_RoundTrip == Deserialized => decoded = v

C1_Witness ==
    /\ pc = "deserialized"
    /\ typ = "SocketAddr"
    /\ v.arm = "V6"
    /\ pos # 0
    /\ build.endian = "little"
    /\ decoded = v

\* C2 (as claimed): ordering between an archived and an owned value agrees
\* with the owned type's ordering in both directions:
\* archive(v).partial_cmp(w) = v.partial_cmp(w) and
\* v.partial_cmp(archive(w)) = v.partial_cmp(w).
C2_OrderingBothDirections ==
    res.computed =>
        /\ res.archived_cmp_owned = res.owned_cmp
        /\ res.owned_cmp_archived = res.owned_cmp

\* C3 (as claimed): comparing archive(v) with archive(w) through the derived
\* Ord of the archived type gives what comparing v with w gives, on hosts of
\* either byte order.
C3_ArchivedOrdering == res.computed => res.archived_cmp_archived = res.owned_cmp

\* C4: equality between archived and owned agrees with the owned type's
\* equality in both directions: archive(v) == w, w == archive(v) and v == w
\* have the same truth value, and values in different arms of IpAddr or
\* SocketAddr are never equal.
C4_EqualityBothDirections ==
    res.computed =>
        /\ res.archived_eq_owned = res.owned_eq
        /\ res.owned_eq_archived = res.owned_eq
        /\ (IsUnion /\ v.arm # w.arm) =>
               (~res.archived_eq_owned /\ ~res.owned_eq_archived)

C4_Witness ==
    /\ res.computed
    /\ typ = "IpAddr"
    /\ v.arm = "V6"
    /\ w.arm = "V4"
    /\ ~res.archived_eq_owned
    /\ ~res.owned_eq_archived

\* C5 (as claimed): resolve writes every byte of its out slot: after
\* resolve no byte in [0, sizeof(A(V))) is left unwritten.
C5_EveryByteWritten == Resolved => \A i \in DOMAIN out : out[i] # Uninit

\* C6: for IpAddr and SocketAddr, resolve writes a one-byte tag at offset 0,
\* 0 for the first declared arm (V4) and 1 for the second (V6), and reading
\* selects the arm from that byte.
C6_Discriminant ==
    (Resolved /\ IsUnion) =>
        /\ writes[1].what = "tag" /\ writes[1].off = 0 /\ Len(writes[1].bytes) = 1
        /\ out[1] = (IF v.arm = "V4" THEN 0 ELSE 1)
        /\ Deserialized => decoded.arm = (IF out[1] = 0 THEN "V4" ELSE "V6")
        /\ (IF typ = "IpAddr" THEN ArchivedIpAddrArm(out, 0) ELSE ArchivedSocketAddrArm(out, 0))
               = (IF out[1] = 0 THEN "V4" ELSE "V6")

C6_Witness ==
    /\ pc = "deserialized"
    /\ typ = "IpAddr"
    /\ v.arm = "V6"
    /\ out[1] = 1
    /\ decoded.arm = "V6"

\* The type of the payload of arm a of the union t.
PayloadType(t, a) ==
    CASE t = "IpAddr" /\ a = "V4" -> "Ipv4Addr"
      [] t = "IpAddr" /\ a = "V6" -> "Ipv6Addr"
      [] t = "SocketAddr" /\ a = "V4" -> "SocketAddrV4"
      [] t = "SocketAddr" /\ a = "V6" -> "SocketAddrV6"

Payload(t, x) == IF t = "IpAddr" THEN x.ip ELSE x.addr

\* The archived layout of v's payload alone lies in v's slot at offset o.
PayloadAt(o) ==
    LET pt == PayloadType(typ, v.arm)
    IN  /\ o + SizeOf(pt, build) <= Len(out)
        /\ Cells(out, o, SizeOf(pt, build)) = SlotAfter(pt, Payload(typ, v), 0, build)

\* C7 (as claimed): in the archived bytes of every IpAddr and SocketAddr the
\* discriminant byte is immediately followed, at byte offset 1 and with no
\* padding, by the selected variant's own archived layout.
C7_PayloadAtOffsetOne == (Resolved /\ IsUnion) => PayloadAt(1)

\* C7 (amended): the variant's archived layout follows the discriminant byte
\* at the offset of field 1 of the arm's repr(C) (tag, payload) record, which
\* is the payload's alignment: 1 for IpAddr V4, 2 for IpAddr V6, 2 for
\* SocketAddr V4 and 4 for SocketAddr V6.
C7_PayloadAtAlignedOffset ==
    (Resolved /\ IsUnion) =>
        PayloadAt(CASE typ = "IpAddr" /\ v.arm = "V4" -> 1
                    [] typ = "IpAddr" /\ v.arm = "V6" -> 2
                    [] typ = "SocketAddr" /\ v.arm = "V4" -> 2
                    [] typ = "SocketAddr" /\ v.arm = "V6" -> 4)

C7_Witness ==
    /\ pc = "resolved"
    /\ typ = "IpAddr"
    /\ v.arm = "V6"
    /\ PayloadAt(2)
    /\ ~PayloadAt(1)

\* C8: the 16 archived bytes of an Ipv6Addr with segments s0..s7 are, for
\* each i, the high byte of si at offset 2i and its low byte at offset
\* 2i + 1, whatever the host byte order, and as_ipv6 reads each pair back as
\* si on either byte order.
C8_SegmentsBigEndian ==
    (Resolved /\ typ = "Ipv6Addr") =>
        /\ \A i \in 0..7 : /\ out[2 * i + 1] = v[i + 1] \div 256
                           /\ out[2 * i + 2] = v[i + 1] % 256
        /\ as_ipv6(out, 0, build.endian) = v

C8_Witness ==
    /\ pc = "resolved"
    /\ typ = "Ipv6Addr"
    /\ build.endian = "little"
    /\ v[1] = 1
    /\ out[1] = 0
    /\ out[2] = 1
    /\ as_ipv6(out, 0, build.endian)[1] = 1

\* C9 (as claimed): ArchivedIpv6Addr::segments() returns the eight segments
\* of the address: archive(v).segments() = v.segments(), consistent with
\* octets() and as_ipv6(), on hosts of either byte order.
C9_SegmentsAgree ==
    (Resolved /\ typ = "Ipv6Addr") =>
        /\ segments(out, 0, build.endian) = v
        /\ segments(out, 0, build.endian) = as_ipv6(out, 0, build.endian)
        /\ Ipv6Octets(segments(out, 0, build.endian)) = Ipv6_octets(out, 0, build.endian)

\* C10: position independence: the bytes resolve writes for v are the same
\* at every position.
C10_PositionIndependent ==
    Resolved =>
        \A p \in Positions :
            LET ws == ResolveWrites(typ, v, p, build)
            IN  /\ Len(ws) = Len(writes)
                /\ \A k \in DOMAIN ws : /\ ws[k].off = writes[k].off
                                        /\ ws[k].bytes = writes[k].bytes
                /\ SlotAfter(typ, v, p, build) = out

C10_Witness ==
    /\ pc = "resolved"
    /\ typ = "SocketAddr"
    /\ v.arm = "V4"
    /\ pos # 0
    /\ SlotAfter(typ, v, 0, build) = out

\* C11: idempotence: archiving v, deserializing the archive and archiving
\* the decoded value again gives a slot byte-identical to the first archive
\* over its whole size, whatever the second slot held before.
C11_ByteIdentical == pc = "rearchived" => out2 = out

\* C12: infallible adapters: with any backend, one that fails on every
\* call included, serialize returns Ok with the unit resolver, deserialize
\* returns Ok with the value read from the archive, and no step invokes or
\* changes the backend.
C12_InfallibleAdapters ==
    /\ [](/\ pc # "start" => status.serialize = "Ok" /\ resolver = "unit"
          /\ pc \in {"deserialized", "rearchived"} =>
                status.deserialize = "Ok" /\ decoded = DeserializeValue(typ, out, build)
          /\ backend.calls = 0)
    /\ [][backend' = backend]_vars

C12_Witness ==
    /\ pc = "deserialized"
    /\ backend.failing
    /\ typ = "SocketAddr"
    /\ v.arm = "V6"
    /\ status = [serialize |-> "Ok", deserialize |-> "Ok"]
    /\ decoded = v

ScenarioA == [ip |-> <<127, 0, 0, 1>>, port |-> 8080]
ScenarioB ==
    [ip |-> <<0, 0, 0, 0, 0, 0, 0, 1>>, port |-> 443, flowinfo |-> 0, scope_id |-> 0]

IsScenario ==
    \/ typ = "SocketAddrV4" /\ v = ScenarioA
    \/ typ = "SocketAddrV6" /\ v = ScenarioB
    \/ typ = "SocketAddr" /\ v.addr \in {ScenarioA, ScenarioB}

\* C13: is_loopback of an archived address, and of the ip() of an archived
\* endpoint, is is_loopback of the owned value; the archived endpoints
\* 127.0.0.1:8080 and [::1]:443 (flow 0, scope 0) report loopback, and so
\* do the endpoints decoded from them.
C13_LoopbackAgrees ==
    preds.computed =>
        /\ preds.archived = preds.owned
        /\ preds.decoded = preds.owned
        /\ IsScenario => preds.archived /\ preds.decoded

C13_Witness ==
    /\ preds.computed
    /\ typ = "SocketAddr"
    /\ v.addr = ScenarioB
    /\ build.endian = "little"
    /\ preds.archived
    /\ preds.decoded

\* The offset of the payload in the (tag, payload) record of the arm written.
PayloadOffset(t, arm) ==
    CASE t = "IpAddr" /\ arm = "V4" -> OffsetOfIpAddrVariantV4
      [] t = "IpAddr" /\ arm = "V6" -> OffsetOfIpAddrVariantV6
      [] t = "SocketAddr" /\ arm = "V4" -> OffsetOfSocketAddrVariantV4
      [] t = "SocketAddr" /\ arm = "V6" -> OffsetOfSocketAddrVariantV6

\* The positions the nested resolves of a struct at position p are to receive.
FieldPositionsV4(p, b) == <<p + OffsetOfV4(b, "ip"), p + OffsetOfV4(b, "port")>>
FieldPositionsV6(p, b) ==
    <<p + OffsetOfV6(b, "ip"), p + OffsetOfV6(b, "port"),
      p + OffsetOfV6(b, "flowinfo"), p + OffsetOfV6(b, "scope_id")>>

PositionsReceived == [k \in DOMAIN writes |-> writes[k].pos]

\* C14: absolute-position propagation: every nested resolve receives pos
\* plus the offset of its field in the parent's archived layout, the payload
\* of a tagged union receives pos plus the offset of the payload in the
\* record of the arm written, and the position a call receives is the
\* absolute offset of the bytes it writes.
C14_PositionPropagation ==
    writes # <<>> =>
        /\ \A k \in DOMAIN writes : writes[k].pos = pos + writes[k].off
        /\ typ = "SocketAddrV4" => PositionsReceived = FieldPositionsV4(pos, build)
        /\ typ = "SocketAddrV6" => PositionsReceived = FieldPositionsV6(pos, build)
        /\ typ = "IpAddr" =>
              PositionsReceived = <<pos, pos + PayloadOffset(typ, v.arm)>>
        /\ typ = "SocketAddr" /\ v.arm = "V4" =>
              PositionsReceived =
                  <<pos>> \o FieldPositionsV4(pos + PayloadOffset(typ, "V4"), build)
        /\ typ = "SocketAddr" /\ v.arm = "V6" =>
              PositionsReceived =
                  <<pos>> \o FieldPositionsV6(pos + PayloadOffset(typ, "V6"), build)

C14_Witness ==
    /\ pc = "resolved"
    /\ pos # 0
    /\ typ = "SocketAddr"
    /\ v.arm = "V6"
    /\ ~build.strict
    /\ Len(writes) = 5
    /\ writes[5].what = "u32"
    /\ writes[5].pos = pos + OffsetOfSocketAddrVariantV6 + OffsetOfV6(build, "scope_id")

\* The buffer after resolve i ran to its end on buffer b.
RunAll(b, i) == ApplyWrites(b, tasks[i].writes)

FreshBuffer == [i \in DOMAIN buffer |-> Uninit]

BothDone == \A i \in DOMAIN tasks : tasks[i].done = Len(tasks[i].writes)

\* C15: write-once confinement: every write a resolve at position p has
\* made lies inside [p, p + sizeof), no byte of the buffer is written
\* twice, and once both resolves have finished the buffer is what running
\* one resolve to its end and then the other gives, in either order.
C15_WriteOnceConfined ==
    tasks # <<>> =>
        /\ \A i \in DOMAIN tasks : \A k \in 1..tasks[i].done :
              LET wr == tasks[i].writes[k] IN
              /\ tasks[i].pos <= wr.off
              /\ wr.off + Len(wr.bytes) <= tasks[i].pos + tasks[i].size
        /\ \A c \in DOMAIN touched : touched[c] <= 1
        /\ BothDone =>
              /\ buffer = RunAll(RunAll(FreshBuffer, 1), 2)
              /\ buffer = RunAll(RunAll(FreshBuffer, 2), 1)

C15_Witness ==
    /\ tasks # <<>>
    /\ BothDone
    /\ tasks[1].typ = "IpAddr"
    /\ tasks[2].typ = "SocketAddrV4"
    /\ tasks[1].pos # 0
    /\ \E c \in DOMAIN touched : touched[c] = 1
    /\ \E c \in DOMAIN touched : touched[c] = 0

\* The fields of Attributes the archive parameters are stored in.
ArchiveFields ==
    {"copy", "strict", "derives", "compares", "archived", "resolver",
     "serialize_bound", "deserialize_bound"}

\* The parameter whose value field f holds.
ParameterOf(f) ==
    CASE f = "derives" -> "derive"
      [] f = "compares" -> "compare"
      [] f = "serialize_bound" -> "serialize"
      [] f = "deserialize_bound" -> "deserialize"
      [] OTHER -> f

IsBound(f) == f \in {"serialize_bound", "deserialize_bound"}

\* How many times the archive argument meta names the parameter of field f.
Occurrences(meta, f) ==
    IF IsBound(f)
    THEN IF meta.name = "bound" /\ meta.kind = "list"
         THEN Cardinality({k \in DOMAIN meta.nested : meta.nested[k].name = ParameterOf(f)})
         ELSE 0
    ELSE IF meta.kind # "lit" /\ meta.name = ParameterOf(f) THEN 1 ELSE 0

\* An archive argument that names something other than the parameters.
Unrecognized(meta) ==
    /\ meta.kind # "lit"
    /\ \/ meta.name \notin {"copy", "strict", "derive", "compare", "bound",
                            "archived", "resolver"}
       \/ /\ meta.name = "bound"
          /\ meta.kind = "list"
          /\ \E k \in DOMAIN meta.nested :
                meta.nested[k].name \notin {"serialize", "deserialize"}

\* A step that handled one argument of an archive(...) / of a repr(...).
ArchiveStep == cursor.attr = "archive" /\ cursor'.items = cursor.items + 1
ReprStep == cursor.attr = "repr" /\ cursor'.items = cursor.items + 1

\* C16: set-once archive parameters: a field of Attributes that holds a
\* value keeps it; an archive argument naming a parameter that already has
\* a value, or naming one parameter twice, or naming no parameter at all,
\* makes parse_attributes return Err; and an Err is final.
C16_SetOnce ==
    [][/\ \A f \in ArchiveFields : result[f] # None => result'[f] = result[f]
       /\ ArchiveStep =>
            /\ \A f \in ArchiveFields :
                  \/ Occurrences(input', f) >= 1 /\ result[f] # None
                  \/ Occurrences(input', f) >= 2
                  => outcome'.state = "Err"
            /\ Unrecognized(input') => outcome'.state = "Err"
       /\ outcome.state = "Err" => outcome'.state = "Err"]_vars

C16_Witness ==
    /\ outcome.state = "Err"
    /\ outcome.message = "copy already specified"
    /\ input = MetaPath("copy")
    /\ result.copy # None
    /\ result.copy.at[1] < cursor.attrs

\* An argument that is a well-formed use of the parameter of field f.
WellFormed(meta, f) ==
    /\ meta.name = ParameterOf(f)
    /\ CASE f \in {"copy", "strict"} -> meta.kind = "path"
         [] f = "derives" -> meta.kind = "list"
         [] OTHER -> meta.kind = "namevalue" /\ meta.lit = "str"

\* The message a duplicate of the parameter of field f is to be reported with.
AlreadySpecified(f) ==
    IF IsBound(f) THEN ParameterOf(f) \o " bound already specified"
    ELSE ParameterOf(f) \o " already specified"

\* C17: the error for a duplicated parameter names that parameter: when
\* parse_attributes fails on a well-formed copy, strict, derive, archived,
\* resolver, bound(serialize) or bound(deserialize) argument (which can
\* only be because the parameter has a value already), the message is
\* "<name> already specified", "serialize bound already specified" or
\* "deserialize bound already specified".
C17_DuplicateNamed ==
    outcome.state = "Err" =>
        \A f \in ArchiveFields \ {"compares"} :
            /\ WellFormed(outcome.span, f)
            /\ IsBound(f) <=> input.name = "bound"
            => outcome.message = AlreadySpecified(f)

\* The Repr slot an argument of repr(...) belongs in.
ReprSlot(name) ==
    CASE name \in {"rust", "transparent", "packed"} -> name
      [] name = "C" -> "c"
      [] OTHER -> "int"

ReprSlots == {"rust", "transparent", "packed", "c", "int"}

\* C18: layout-mode recording: a path argument of repr(...) is stored in
\* the one Repr slot it belongs in and in no other, a repr argument never
\* makes parse_attributes fail and changes no other field of Attributes,
\* and nothing else changes a Repr slot, so each slot holds the last
\* argument classified into it, or None.
C18_ReprRecorded ==
    [][/\ ReprStep =>
            /\ outcome' = Parsing
            /\ \A f \in ArchiveFields : result'[f] = result[f]
            /\ input'.kind = "path" =>
                  /\ result'.repr[ReprSlot(input'.name)] =
                        Some(<<cursor.attrs, cursor'.items, 0>>, input')
                  /\ \A sl \in ReprSlots \ {ReprSlot(input'.name)} :
                        result'.repr[sl] = result.repr[sl]
            /\ input'.kind # "path" => result'.repr = result.repr
       /\ ~ReprStep => result'.repr = result.repr]_vars

C18_Witness ==
    /\ outcome.state = "Ok"
    /\ cursor.items = 2
    /\ input = MetaPath("Rust")
    /\ result.repr.int # None
    /\ result.repr.int.at = <<1, 2, 0>>
    /\ result.repr.int.tokens = MetaPath("Rust")
    /\ \A sl \in ReprSlots \ {"int"} : result.repr[sl] = None
    /\ \A f \in ArchiveFields : result[f] = None

====
